---------------------------- MODULE Spec2Model ----------------------------
(***************************************************************************)
(* Model of tools/frequency-generator.py: the console driver (main,        *)
(* parse_input, convert_to_seconds), the two playback functions            *)
(* (play_continuous, play_finite) with their audio callbacks, the SIGINT   *)
(* handler and the block generator (generate_sinusoidal_block).            *)
(*                                                                         *)
(* Three threads of control are interleaved: the main thread (main and the *)
(* play_* function it calls), the audio thread of the output stream, which *)
(* runs the callback, and the SIGINT handler.  A callback is two steps:    *)
(* its stop test, then the generation and the write of the block; the      *)
(* handler may run between the two.                                        *)
(*                                                                         *)
(* Text is a sequence of one-character strings.  The console alphabet is   *)
(* the digits, "-", ",", " ", and the letters b, c, B, C, x; a number is   *)
(* an optional "-" and digits (decimal points and exponents are outside    *)
(* the alphabet), so a frequency is an integer number of Hz.               *)
(*                                                                         *)
(* An audio sample is symbolic: the record [kind, freqs, n, rate, div]     *)
(* stands for (sum over k of sin(2*pi*freqs[k]*n/rate)) / div.             *)
(***************************************************************************)
EXTENDS Integers, Sequences, FiniteSets

(***************************************************************************)
(* Bounds of the model.                                                    *)
(***************************************************************************)
\* The device asks for 1..MaxFrames frames per callback.
MaxFrames == 3

\* The sampling rate main passes to play_* (44100 at line 128), scaled down
\* so that a one-minute session is 60 * SampleRate samples long.
SampleRate == 1

\* A continuous session is followed until its clock reaches MaxClock.
MaxClock == 4

\* Number of SIGINT deliveries followed.
MaxSignals == 2

\* The generator alone is asked for blocks of 0..MaxBlock samples, up to the
\* sample index MaxGenClock.
MaxBlock == 3

MaxGenClock == 4

\* parse_input alone is applied to every line of at most MaxInputLen
\* characters.
MaxInputLen == 5

(***************************************************************************)
(* Text helpers: str.strip, str.split, str.lower, str.join, float, int.    *)
(***************************************************************************)
Min(a, b) == IF a < b THEN a ELSE b

IsSpace(c) == c = " "

DigitChars == <<"0", "1", "2", "3", "4", "5", "6", "7", "8", "9">>

IsDigit(c) == \E i \in 1..10 : DigitChars[i] = c

DigitVal(c) == (CHOOSE i \in 1..10 : DigitChars[i] = c) - 1

lower_char(c) == IF c = "B" THEN "b" ELSE IF c = "C" THEN "c" ELSE c

lower(s) == [i \in 1..Len(s) |-> lower_char(s[i])]

RECURSIVE lstrip(_)
lstrip(s) == IF s # <<>> /\ IsSpace(Head(s)) THEN lstrip(Tail(s)) ELSE s

RECURSIVE rstrip(_)
rstrip(s) ==
    IF s # <<>> /\ IsSpace(s[Len(s)]) THEN rstrip(SubSeq(s, 1, Len(s) - 1)) ELSE s

strip(s) == rstrip(lstrip(s))

\* s.split(sep) for a one-character separator: empty fields are kept.
RECURSIVE split_on(_, _, _)
split_on(s, sep, cur) ==
    IF s = <<>> THEN <<cur>>
    ELSE IF Head(s) = sep THEN <<cur>> \o split_on(Tail(s), sep, <<>>)
    ELSE split_on(Tail(s), sep, Append(cur, Head(s)))

\* s.split(): fields separated by runs of whitespace, no empty field.
split(s) == SelectSeq(split_on(s, " ", <<>>), LAMBDA p : p # <<>>)

\* ' '.join(parts)
RECURSIVE join(_)
join(parts) ==
    IF parts = <<>> THEN <<>>
    ELSE IF Len(parts) = 1 THEN parts[1]
    ELSE parts[1] \o <<" ">> \o join(Tail(parts))

RECURSIVE DigitsValue(_, _)
DigitsValue(s, acc) ==
    IF s = <<>> THEN acc ELSE DigitsValue(Tail(s), 10 * acc + DigitVal(Head(s)))

\* float(s) and int(s) on the console alphabet: surrounding whitespace is
\* ignored, then an optional "-" and at least one digit; anything else is a
\* ValueError.
ParseNumber(s) ==
    LET u == strip(s)
        neg == u # <<>> /\ Head(u) = "-"
        d == IF neg THEN Tail(u) ELSE u
        ok == d # <<>> /\ \A i \in 1..Len(d) : IsDigit(d[i])
    IN  [ok |-> ok,
         val |-> IF ~ok THEN 0 ELSE IF neg THEN 0 - DigitsValue(d, 0) ELSE DigitsValue(d, 0)]


(***************************************************************************)
(* parse_input and convert_to_seconds.                                     *)
(***************************************************************************)
FlagB == <<"b">>
FlagC == <<"c">>

\* Lines 97-106 with the test for both flags made first.
flag_branch_both_first(last) ==
    IF last \in {FlagB, FlagC} THEN 3 ELSE 0

\* Lines 97, 100, 103: which branch of the flag handling the lower-cased
\* last part selects: 1 (if), 2 (first elif), 3 (second elif), 0 (none).
flag_branch(last) ==
    IF last = FlagB THEN 1
    ELSE IF last = FlagC THEN 2
    ELSE IF last \in {FlagB, FlagC} THEN 3
    ELSE 0

\* parse_input's result: error is "none", "IndexError" (parts[-1] of an
\* empty list) or "ValueError" (float of a field that is no number).
parse_input(input_string) ==
    LET parts == split(strip(input_string))
    IN  IF parts = <<>>
        THEN [error |-> "IndexError", frequencies |-> <<>>,
              binaural |-> FALSE, continuous |-> FALSE]
        ELSE
        LET last == lower(parts[Len(parts)])
            front == SubSeq(parts, 1, Len(parts) - 1)
            branch == flag_branch(last)
            binaural == IF branch = 1 THEN TRUE
                        ELSE IF branch = 3 THEN \E i \in 1..Len(parts) : parts[i] = FlagB
                        ELSE FALSE
            continuous == IF branch = 2 THEN TRUE
                          ELSE IF branch = 3 THEN \E i \in 1..Len(parts) : parts[i] = FlagC
                          ELSE FALSE
            frequency_string ==
                IF branch \in {1, 2} THEN join(front)
                ELSE IF branch = 3
                THEN join(SelectSeq(parts, LAMBDA p : lower(p) \notin {FlagB, FlagC}))
                ELSE input_string
            fields == split_on(frequency_string, ",", <<>>)
            nums == [i \in 1..Len(fields) |-> ParseNumber(fields[i])]
        IN  IF \E i \in 1..Len(fields) : ~nums[i].ok
            THEN [error |-> "ValueError", frequencies |-> <<>>,
                  binaural |-> binaural, continuous |-> continuous]
            ELSE [error |-> "none",
                  frequencies |-> [i \in 1..Len(fields) |-> nums[i].val],
                  binaural |-> binaural, continuous |-> continuous]

convert_to_seconds(hours, minutes) == hours * 3600 + minutes * 60

(***************************************************************************)
(* generate_sinusoidal_block.                                              *)
(***************************************************************************)
\* Line 17 without the division by len(frequencies).
Tone_undivided(freqs, n, rate) ==
    [kind |-> "tone", freqs |-> freqs, n |-> n, rate |-> rate, div |-> 1]

\* (sum over k of sin(2*pi*freqs[k]*n/rate)) / Len(freqs), as a symbol.
Tone(freqs, n, rate) ==
    [kind |-> "tone", freqs |-> freqs, n |-> n, rate |-> rate, div |-> Len(freqs)]

\* A channel of silence (outdata[frames:] = 0).
Silence == [kind |-> "zero", freqs |-> <<>>, n |-> 0, rate |-> 0, div |-> 0]

\* What the device's buffer holds before the callback writes to it.
Stale == [kind |-> "stale", freqs |-> <<>>, n |-> 0, rate |-> 0, div |-> 0]

\* Lines 24-29 with <= for <.
beat_offset_inclusive(frequency) ==
    IF frequency <= 40 THEN 4 ELSE IF frequency <= 100 THEN 6 ELSE 8

\* The beat offset added to the right channel's frequency.
beat_offset(frequency) ==
    IF frequency < 40 THEN 4 ELSE IF frequency < 100 THEN 6 ELSE 8

\* Line 12 without the + t0: every block starts again at sample 0.
generate_sinusoidal_block_unshifted(frequencies, sampling_rate, block_size, start, binaural) ==
    [i \in 1..block_size |->
        IF ~binaural
        THEN Tone(frequencies, i - 1, sampling_rate)
        ELSE <<Tone(frequencies, i - 1, sampling_rate),
               Tone([k \in 1..Len(frequencies) |->
                        frequencies[k] + beat_offset(frequencies[k])],
                    i - 1, sampling_rate)>>]

\* Mono: a sequence of block_size samples.  Binaural: a sequence of
\* block_size (left, right) pairs.
generate_sinusoidal_block(frequencies, sampling_rate, block_size, start, binaural) ==
    [i \in 1..block_size |->
        IF ~binaural
        THEN Tone(frequencies, start + i - 1, sampling_rate)
        ELSE <<Tone(frequencies, start + i - 1, sampling_rate),
               Tone([k \in 1..Len(frequencies) |->
                        frequencies[k] + beat_offset(frequencies[k])],
                    start + i - 1, sampling_rate)>>]

\* block.reshape(outdata.shape): a mono block becomes frames of one channel.
reshape(block, binaural) ==
    [i \in 1..Len(block) |-> IF binaural THEN block[i] ELSE <<block[i]>>]

\* Lines 54, 79 with the channel count fixed at 1.
channel_count_mono(binaural) == 1

\* channels = 2 if binaural else 1
channel_count(binaural) == IF binaural THEN 2 ELSE 1

\* A device buffer of K frames, not yet written.
fresh_buffer(K, channels) == [i \in 1..K |-> [c \in 1..channels |-> Stale]]

\* Lines 49, 71 with the buffer filled with zeros before the raise.
stopped_buffer_zeroed(buf) ==
    [i \in 1..Len(buf) |-> [c \in 1..Len(buf[i]) |-> Silence]]

\* Lines 49, 71: raise sd.CallbackStop() comes before any write to outdata,
\* so the buffer of that callback is left as the device handed it over.
stopped_buffer(buf) == buf

(***************************************************************************)
(* Console inputs followed by the model.                                   *)
(***************************************************************************)
\* Lines typed at "Enter frequencies ...": "5", "40,100 b", "7 C", "-5",
\* "", "b", "5 b c", "x".
FrequencyInputs ==
    { <<"5">>,
      <<"4", "0", ",", "1", "0", "0", " ", "b">>,
      <<"7", " ", "C">>,
      <<"-", "5">>,
      <<>>,
      <<"b">>,
      <<"5", " ", "b", " ", "c">>,
      <<"x">> }

\* Lines typed at "Enter duration (hours)": "0", "-1".
HourInputs == { <<"0">>, <<"-", "1">> }

\* Lines typed at "Enter duration (minutes)": "0", "1", "-1", "x".
MinuteInputs == { <<"0">>, <<"1">>, <<"-", "1">>, <<"x">> }

\* Frame counts the device may ask for in one callback.
FrameCounts == 1..MaxFrames

(***************************************************************************)
(* State.                                                                  *)
(***************************************************************************)
VARIABLES
    mainPc,         \* main thread: "input", "duration", "open", "wait"
                    \* (stop_event.wait()), "sleep" (sd.sleep), "done"
    frequency_input,\* main's frequency_input: the line read at line 120
    sampling_rate,  \* main's sampling_rate (line 128), 0 before it is set
    reported,       \* what main's except clauses printed: "none",
                    \* "ValueError", "Error"
    frequencies,    \* parse_input's frequencies
    binaural,       \* parse_input's binaural
    continuous,     \* parse_input's continuous
    duration,       \* convert_to_seconds(hours, minutes)
    total_samples,  \* play_finite's total_samples
    t0,             \* the sample clock of play_continuous / play_finite
    stop_event,     \* threading.Event: set or not
    signals,        \* SIGINT deliveries so far
    stream,         \* the OutputStream: "unopened", "active", "stopped" (the
                    \* callback raised CallbackStop), "aborted" (device
                    \* fault), "closed" (the with block was left while active)
    channels,       \* channel count the stream was opened with
    cancelledAtOpen,\* history: stop_event was set when the stream was opened
    cbPc,           \* audio thread: "idle", or "fill" inside a callback
    cb_frames,      \* the callback's frames argument, len(outdata)
    cb_remaining,   \* play_finite.callback's remaining
    outdata,        \* the device buffer of the current or last callback
    cbLate,         \* history: the current callback began with stop_event set
    produced        \* history: generated frames written to outdata so far

vars == <<mainPc, frequency_input, sampling_rate, reported, frequencies,
          binaural, continuous, duration, total_samples, t0, stop_event,
          signals, stream, channels, cancelledAtOpen, cbPc, cb_frames,
          cb_remaining, outdata, cbLate, produced>>

mainVars == <<mainPc, frequency_input, sampling_rate, reported, frequencies,
              binaural, continuous, duration>>

sessionVars == <<total_samples, t0, stream, channels, cancelledAtOpen>>

callbackVars == <<cbPc, cb_frames, cb_remaining, outdata, cbLate, produced>>

Init ==
    /\ mainPc = "input"
    /\ frequency_input = <<>>
    /\ sampling_rate = 0
    /\ cancelledAtOpen = FALSE
    /\ reported = "none"
    /\ frequencies = <<>>
    /\ binaural = FALSE
    /\ continuous = FALSE
    /\ duration = 0
    /\ total_samples = 0
    /\ t0 = 0
    /\ stop_event = FALSE
    /\ signals = 0
    /\ stream = "unopened"
    /\ channels = 0
    /\ cbPc = "idle"
    /\ cb_frames = 0
    /\ cb_remaining = 0
    /\ outdata = <<>>
    /\ cbLate = FALSE
    /\ produced = 0

\* Number of leading frames of a buffer that hold generated samples.
GeneratedCount(buf) ==
    Cardinality({i \in 1..Len(buf) : buf[i][1].kind = "tone"})

(***************************************************************************)
(* main.                                                                   *)
(***************************************************************************)
\* Lines 120-121 and the except clauses: read the frequency line and parse.
MainParse(line) ==
    /\ mainPc = "input"
    /\ frequency_input' = line
    /\ LET r == parse_input(line)
       IN  IF r.error # "none"
           THEN /\ reported' = (IF r.error = "ValueError" THEN "ValueError" ELSE "Error")
                /\ mainPc' = "done"
                /\ UNCHANGED <<frequencies, binaural, continuous, sampling_rate>>
           ELSE /\ frequencies' = r.frequencies
                /\ binaural' = r.binaural
                /\ continuous' = r.continuous
                /\ sampling_rate' = SampleRate
                /\ mainPc' = (IF r.continuous THEN "open" ELSE "duration")
                /\ UNCHANGED reported
    /\ UNCHANGED <<duration, stop_event, signals>>
    /\ UNCHANGED sessionVars
    /\ UNCHANGED callbackVars

\* Lines 133-135: read the hours and the minutes, compute the duration.
MainDuration(hline, mline) ==
    /\ mainPc = "duration"
    /\ LET hours == ParseNumber(hline)
           minutes == ParseNumber(mline)
       IN  IF ~hours.ok \/ ~minutes.ok
           THEN /\ reported' = "ValueError"
                /\ mainPc' = "done"
                /\ UNCHANGED duration
           ELSE /\ duration' = convert_to_seconds(hours.val, minutes.val)
                /\ mainPc' = "open"
                /\ UNCHANGED reported
    /\ UNCHANGED <<frequency_input, sampling_rate, frequencies, binaural,
                   continuous, stop_event, signals>>
    /\ UNCHANGED sessionVars
    /\ UNCHANGED callbackVars

\* signal_handler, lines 112-114.
signal_handler ==
    /\ mainPc # "done"
    /\ signals < MaxSignals
    /\ stop_event' = TRUE
    /\ signals' = signals + 1
    /\ UNCHANGED mainVars
    /\ UNCHANGED sessionVars
    /\ UNCHANGED callbackVars

(***************************************************************************)
(* play_continuous.                                                        *)
(***************************************************************************)
\* Line 48 with the test inverted.
continuous_stop_inverted(flag) == ~flag

\* Line 48: the callback's stop test.
continuous_stop(flag) == flag

\* Line 51: outdata[:] = block.reshape(outdata.shape)
continuous_write(buf, block, stereo) == reshape(block, stereo)

\* Lines 43-56: the clock starts at 0 and the stream is opened and started.
PlayContinuousOpen ==
    /\ mainPc = "open"
    /\ continuous
    /\ t0' = 0
    /\ channels' = channel_count(binaural)
    /\ stream' = "active"
    /\ cancelledAtOpen' = stop_event
    /\ mainPc' = "wait"
    /\ UNCHANGED <<frequency_input, sampling_rate, reported, frequencies,
                   binaural, continuous, duration, total_samples, stop_event,
                   signals>>
    /\ UNCHANGED callbackVars

\* Lines 46-49: the device asks for K frames; the callback tests stop_event.
ContinuousCallbackEnter(K) ==
    /\ stream = "active"
    /\ continuous
    /\ cbPc = "idle"
    /\ stop_event \/ t0 < MaxClock
    /\ cbLate' = stop_event
    /\ IF continuous_stop(stop_event)
       THEN /\ stream' = "stopped"
            /\ outdata' = stopped_buffer(fresh_buffer(K, channels))
            /\ UNCHANGED <<cbPc, cb_frames>>
       ELSE /\ cbPc' = "fill"
            /\ cb_frames' = K
            /\ outdata' = fresh_buffer(K, channels)
            /\ UNCHANGED stream
    /\ UNCHANGED mainVars
    /\ UNCHANGED <<total_samples, t0, channels, cancelledAtOpen, stop_event,
                   signals, cb_remaining, produced>>

\* Lines 50-52: generate the block, write it, advance the clock.
ContinuousCallbackFill ==
    /\ cbPc = "fill"
    /\ continuous
    /\ LET block == generate_sinusoidal_block(frequencies, sampling_rate,
                                              cb_frames, t0, binaural)
       IN  outdata' = continuous_write(outdata, block, binaural)
    /\ t0' = t0 + cb_frames
    /\ produced' = produced + GeneratedCount(outdata')
    /\ cbPc' = "idle"
    /\ cb_frames' = 0
    /\ UNCHANGED mainVars
    /\ UNCHANGED <<total_samples, stream, channels, cancelledAtOpen,
                   stop_event, signals, cb_remaining, cbLate>>

\* Line 58 and the end of the with block: stop_event.wait() returns once the
\* event is set, and the stream is closed (closing waits for a running
\* callback to return).
ContinuousWaitReturns ==
    /\ mainPc = "wait"
    /\ stop_event
    /\ cbPc = "idle"
    /\ stream' = (IF stream = "active" THEN "closed" ELSE stream)
    /\ mainPc' = "done"
    /\ UNCHANGED <<frequency_input, sampling_rate, reported, frequencies,
                   binaural, continuous, duration, total_samples, t0, channels,
                   cancelledAtOpen, stop_event, signals>>
    /\ UNCHANGED callbackVars

(***************************************************************************)
(* play_finite.                                                            *)
(***************************************************************************)
\* Line 63: total_samples = int(duration * sampling_rate)
total_sample_count(seconds, rate) == seconds * rate

\* Line 69: remaining = total_samples - t0
finite_remaining(total, clock) == total - clock

\* Line 70 with < for <=.
finite_stop_strict(remaining) == remaining < 0

\* Line 70: the callback's stop test.
finite_stop(remaining) == remaining <= 0

\* Line 72 without the min.
finite_frames_unclamped(frames, remaining) == frames

\* Line 72: frames = min(frames, remaining)
finite_frames(frames, remaining) == Min(frames, remaining)

\* Lines 74-76 without the zero fill of the tail.
finite_write_unpadded(buf, block, frames, stereo) ==
    [i \in 1..Len(buf) |->
        IF i <= frames THEN reshape(block, stereo)[i] ELSE buf[i]]

\* Lines 74-76: outdata[:frames] = block; if frames < len(outdata):
\* outdata[frames:] = 0
finite_write(buf, block, frames, stereo) ==
    [i \in 1..Len(buf) |->
        IF i <= frames THEN reshape(block, stereo)[i]
        ELSE [c \in 1..Len(buf[i]) |-> Silence]]

\* Line 77 with = for +=.
finite_advance_assigned(clock, frames) == frames

\* Line 77: t0 += frames
finite_advance(clock, frames) == clock + frames

\* Lines 63-81: the sample count is computed, the clock starts at 0 and the
\* stream is opened and started.
PlayFiniteOpen ==
    /\ mainPc = "open"
    /\ ~continuous
    /\ total_samples' = total_sample_count(duration, sampling_rate)
    /\ t0' = 0
    /\ channels' = channel_count(binaural)
    /\ stream' = "active"
    /\ cancelledAtOpen' = stop_event
    /\ mainPc' = "sleep"
    /\ UNCHANGED <<frequency_input, sampling_rate, reported, frequencies,
                   binaural, continuous, duration, stop_event, signals>>
    /\ UNCHANGED callbackVars

\* Lines 67-71: the device asks for K frames; the callback tests remaining.
FiniteCallbackEnter(K) ==
    /\ stream = "active"
    /\ ~continuous
    /\ cbPc = "idle"
    /\ cbLate' = stop_event
    /\ LET remaining == finite_remaining(total_samples, t0)
       IN  IF finite_stop(remaining)
           THEN /\ stream' = "stopped"
                /\ outdata' = stopped_buffer(fresh_buffer(K, channels))
                /\ UNCHANGED <<cbPc, cb_frames, cb_remaining>>
           ELSE /\ cbPc' = "fill"
                /\ cb_frames' = K
                /\ cb_remaining' = remaining
                /\ outdata' = fresh_buffer(K, channels)
                /\ UNCHANGED stream
    /\ UNCHANGED mainVars
    /\ UNCHANGED <<total_samples, t0, channels, cancelledAtOpen, stop_event,
                   signals, produced>>

\* Lines 72-77: generate the block, write it, pad with silence, advance the
\* clock.
FiniteCallbackFill ==
    /\ cbPc = "fill"
    /\ ~continuous
    /\ LET frames == finite_frames(cb_frames, cb_remaining)
           block == generate_sinusoidal_block(frequencies, sampling_rate,
                                              frames, t0, binaural)
       IN  /\ outdata' = finite_write(outdata, block, frames, binaural)
           /\ t0' = finite_advance(t0, frames)
    /\ produced' = produced + GeneratedCount(outdata')
    /\ cbPc' = "idle"
    /\ cb_frames' = 0
    /\ cb_remaining' = 0
    /\ UNCHANGED mainVars
    /\ UNCHANGED <<total_samples, stream, channels, cancelledAtOpen,
                   stop_event, signals, cbLate>>

\* Line 83 and the end of the with block: sd.sleep returns when its time is
\* up, whatever the stream has done by then, and the stream is closed
\* (closing waits for a running callback to return).
FiniteSleepReturns ==
    /\ mainPc = "sleep"
    /\ cbPc = "idle"
    /\ stream' = (IF stream = "active" THEN "closed" ELSE stream)
    /\ mainPc' = "done"
    /\ UNCHANGED <<frequency_input, sampling_rate, reported, frequencies,
                   binaural, continuous, duration, total_samples, t0, channels,
                   cancelledAtOpen, stop_event, signals>>
    /\ UNCHANGED callbackVars

(***************************************************************************)
(* The output device.                                                      *)
(***************************************************************************)
\* sd.OutputStream(...) raises (lines 55, 80); main's except Exception
\* prints the error (lines 140-141).
OpenFails ==
    /\ mainPc = "open"
    /\ reported' = "Error"
    /\ mainPc' = "done"
    /\ UNCHANGED <<frequency_input, sampling_rate, frequencies, binaural,
                   continuous, duration, stop_event, signals>>
    /\ UNCHANGED sessionVars
    /\ UNCHANGED callbackVars

\* The device fails while streaming: the stream stops and no further
\* callback is made.  Nothing in play_* or main looks at the stream's state.
DeviceFault ==
    /\ stream = "active"
    /\ stream' = "aborted"
    /\ UNCHANGED mainVars
    /\ UNCHANGED <<total_samples, t0, channels, cancelledAtOpen, stop_event,
                   signals>>
    /\ UNCHANGED callbackVars

(***************************************************************************)
(* The specification.                                                      *)
(***************************************************************************)
Next ==
    \/ \E line \in FrequencyInputs : MainParse(line)
    \/ \E hline \in HourInputs, mline \in MinuteInputs : MainDuration(hline, mline)
    \/ signal_handler
    \/ PlayContinuousOpen
    \/ \E K \in FrameCounts : ContinuousCallbackEnter(K)
    \/ ContinuousCallbackFill
    \/ ContinuousWaitReturns
    \/ PlayFiniteOpen
    \/ \E K \in FrameCounts : FiniteCallbackEnter(K)
    \/ FiniteCallbackFill
    \/ FiniteSleepReturns
    \/ OpenFails
    \/ DeviceFault

Spec == Init /\ [][Next]_vars

(***************************************************************************)
(* The session states of the design, read off the program's state.         *)
(***************************************************************************)
Status ==
    IF stream = "unopened" THEN "Idle"
    ELSE IF stream = "active" THEN "Running"
    ELSE IF stream = "aborted" THEN "Failed"
    ELSE IF stream = "stopped" THEN (IF continuous THEN "Cancelled" ELSE "Completed")
    ELSE "Closed"

(***************************************************************************)
(* Steps of the audio thread, as seen from outside.                        *)
(***************************************************************************)
\* A callback begins: it either goes on to fill the buffer or stops the
\* stream.
BlockFillBegins ==
    /\ stream = "active"
    /\ cbPc = "idle"
    /\ cbPc' = "fill" \/ stream' = "stopped"

\* A callback that went on to fill the buffer returns.
BlockFillReturns == cbPc = "fill" /\ cbPc' = "idle"

\* The frame the generator yields for the absolute sample index n.
GeneratedFrame(n) ==
    reshape(generate_sinusoidal_block(frequencies, sampling_rate, 1, n, binaural),
            binaural)[1]

\* The frequency list or the duration violates the input contract.
InvalidInput ==
    \/ frequencies = <<>>
    \/ \E i \in 1..Len(frequencies) : frequencies[i] <= 0
    \/ duration < 0

(***************************************************************************)
(* Claims.                                                                 *)
(***************************************************************************)
\* C1: a finite session that has ended without cancellation and without a
\* device fault has produced exactly total_samples frames.
C1_FullRunProducesTotal ==
    (/\ ~continuous
     /\ mainPc = "done"
     /\ stream \in {"stopped", "closed"}
     /\ ~stop_event
     /\ total_samples >= 0) => produced = total_samples

\* C2: in a finite session the sample clock never exceeds total_samples.
C2_ClockNeverExceedsTotal ==
    (~continuous /\ stream # "unopened" /\ total_samples >= 0)
        => (t0 <= total_samples /\ produced <= total_samples)

\* C2 witness: a finite session whose last block was cut short at
\* total_samples.
C2_Witness ==
    /\ ~continuous
    /\ total_samples > 0
    /\ t0 = total_samples
    /\ cbPc = "idle"
    /\ outdata # <<>>
    /\ GeneratedCount(outdata) < Len(outdata)

\* C3: in either plan a callback that begins while the stream is running and
\* stop_event is set produces nothing, stops the stream and leaves the
\* session Cancelled.
C3_CancelObservedByNextBlock ==
    [][(BlockFillBegins /\ stop_event)
          => (/\ stream' = "stopped"
              /\ cbPc' = "idle"
              /\ t0' = t0
              /\ produced' = produced
              /\ Status' = "Cancelled")]_vars

\* C4: a callback that began after stop_event was set produces no frame.
C4_NoFramesFromLateCallbacks ==
    [][(cbPc = "fill" /\ cbLate) => (t0' = t0 /\ produced' = produced)]_vars

\* C5: play_finite returns only when the clock has reached total_samples,
\* stop_event is set or the device has failed.
C5_FiniteReturnsOnlyWhenTerminal ==
    (~continuous /\ mainPc = "done" /\ stream # "unopened")
        => (t0 >= total_samples \/ stop_event \/ stream = "aborted")

\* C6: each block the generator makes starts at the sum of the frames
\* produced before it and holds consecutive sample indices; the clock
\* changes only when a block is written, by the number of frames generated.
C6_BlocksContiguous ==
    [][/\ BlockFillReturns =>
           LET g == GeneratedCount(outdata')
           IN  /\ t0 = produced
               /\ t0' = t0 + g
               /\ \A i \in 1..g : \A c \in 1..Len(outdata'[i]) :
                      /\ outdata'[i][c].kind = "tone"
                      /\ outdata'[i][c].n = produced + i - 1
       /\ ~BlockFillReturns => t0' = t0]_vars

\* C6 witness: a block that started at a non-zero sample index was written.
C6_Witness ==
    /\ cbPc = "idle"
    /\ outdata # <<>>
    /\ outdata[1][1].kind = "tone"
    /\ outdata[1][1].n > 0
    /\ t0 = outdata[1][1].n + GeneratedCount(outdata)

\* C7: with an invalid input no stream is opened, no callback runs, and main
\* ends having reported an error.
C7_InvalidInputRejected ==
    InvalidInput
        => (/\ stream = "unopened"
            /\ produced = 0
            /\ mainPc = "done" => reported # "none")

\* C8: when the device has failed while streaming, main ends having reported
\* the failure.
C8_FaultReported ==
    (stream = "aborted" /\ mainPc = "done") => reported = "Error"

\* C9: in a continuous session a callback that begins with stop_event unset
\* goes on to fill the buffer without stopping the stream, every filled
\* buffer holds exactly the K frames asked for, and the stream leaves the
\* running state only with stop_event set or by a device fault.
C9_ContinuousProducesK ==
    [][continuous =>
          /\ (BlockFillBegins /\ ~stop_event)
                 => (cbPc' = "fill" /\ stream' = "active" /\ cb_frames' \in FrameCounts)
          /\ BlockFillReturns
                 => (/\ Len(outdata') = cb_frames
                     /\ GeneratedCount(outdata') = cb_frames
                     /\ t0' = t0 + cb_frames
                     /\ stream' = stream)
          /\ (stream = "active" /\ stream' # "active")
                 => (stop_event \/ stream' = "aborted")]_vars

\* C9 witness: a continuous session still running, uncancelled, after it has
\* produced blocks.
C9_Witness ==
    /\ continuous
    /\ stream = "active"
    /\ ~stop_event
    /\ cbPc = "idle"
    /\ t0 >= 2
    /\ GeneratedCount(outdata) = Len(outdata)

\* C10: a finite callback with 0 < remaining < K leaves the generated
\* samples of indices clock .. clock+remaining-1 in the first remaining
\* frames of the buffer and silence in every frame after them.
C10_TruncatedBlockZeroPadded ==
    [][(/\ ~continuous
        /\ BlockFillReturns
        /\ 0 < total_samples - t0
        /\ total_samples - t0 < cb_frames)
          => LET remaining == total_samples - t0
             IN  /\ Len(outdata') = cb_frames
                 /\ \A i \in 1..remaining : outdata'[i] = GeneratedFrame(t0 + i - 1)
                 /\ \A i \in (remaining + 1)..cb_frames :
                        /\ Len(outdata'[i]) = channels
                        /\ \A c \in 1..channels : outdata'[i][c] = Silence]_vars

\* C10 witness: a finite callback has returned a buffer whose last block was
\* cut short: generated frames followed by silence.
C10_Witness ==
    /\ ~continuous
    /\ cbPc = "idle"
    /\ outdata # <<>>
    /\ 0 < GeneratedCount(outdata)
    /\ GeneratedCount(outdata) < Len(outdata)
    /\ outdata[Len(outdata)][1] = Silence
    /\ t0 = total_samples

\* C11: a second SIGINT changes nothing but the count of deliveries; a
\* SIGINT after the stream has ended changes neither the clock nor the
\* outcome; and a session whose stream was opened with stop_event already
\* set never produces a frame: its clock stays at 0 until it ends.
C11_CancelIdempotentAndSafe ==
    [][/\ (signals' = signals + 1 /\ stop_event)
              => (/\ stop_event'
                  /\ UNCHANGED mainVars
                  /\ UNCHANGED sessionVars
                  /\ UNCHANGED callbackVars)
       /\ (signals' = signals + 1 /\ stream \notin {"unopened", "active"})
              => (/\ t0' = t0
                  /\ produced' = produced
                  /\ Status' = Status
                  /\ reported' = reported)
       /\ cancelledAtOpen'
              => (/\ produced' = 0
                  /\ t0' = 0
                  /\ cbPc' = "idle")]_vars

\* C12: the stream is opened with 2 channels in binaural mode and 1 in mono
\* mode, and every frame the generator has written to the device buffer has
\* that many channels, each holding a generated sample.
C12_ChannelCountFixedByMode ==
    stream # "unopened"
        => (/\ channels = (IF binaural THEN 2 ELSE 1)
            /\ \A i \in 1..Len(outdata) :
                   /\ Len(outdata[i]) = channels
                   /\ outdata[i][1].kind = "tone"
                        => (/\ Len(outdata[i]) = (IF binaural THEN 2 ELSE 1)
                            /\ \A c \in 1..Len(outdata[i]) :
                                   outdata[i][c].kind = "tone"))

\* C12 witness: a binaural session has written a block of two-channel
\* frames.
C12_Witness ==
    /\ binaural
    /\ stream = "active"
    /\ channels = 2
    /\ cbPc = "idle"
    /\ outdata # <<>>
    /\ Len(outdata[1]) = 2
    /\ outdata[1][2].kind = "tone"

\* The last callback of a finite session wrote fewer frames than it was
\* asked for.
TruncatedBlockWritten ==
    /\ ~continuous
    /\ cbPc = "idle"
    /\ outdata # <<>>
    /\ outdata[1][1].kind = "tone"
    /\ GeneratedCount(outdata) < Len(outdata)

\* C16: after a finite callback has written a truncated block the stream
\* has been asked to stop: it is no longer running.
C16_TruncatedBlockStopsStream ==
    TruncatedBlockWritten => stream # "active"

\* C16, amended: the callback that writes a truncated block leaves the
\* stream as it is and the clock at total_samples; the next callback, if the
\* device makes one, writes nothing and stops the stream.
C16_StopComesWithNextCallback ==
    [][/\ (~continuous /\ BlockFillReturns /\ GeneratedCount(outdata') < Len(outdata'))
              => (stream' = stream /\ t0' = total_samples)
       /\ (TruncatedBlockWritten /\ BlockFillBegins)
              => (/\ stream' = "stopped"
                  /\ cbPc' = "idle"
                  /\ t0' = t0
                  /\ produced' = produced)]_vars

\* C16 witness: a truncated block has been written and the stream is still
\* running, so that a further callback can come.
C16_Witness ==
    /\ TruncatedBlockWritten
    /\ stream = "active"
    /\ t0 = total_samples
    /\ mainPc = "sleep"

\* C17: a callback that stops the stream (stop_event set in a continuous
\* session, remaining <= 0 in a finite one) leaves the clock and the count
\* of generated frames unchanged, does not go on to the generator, and
\* leaves its buffer as the device handed it over.
C17_StopLeavesClockAndBuffer ==
    [][(stream = "active" /\ stream' = "stopped")
          => (/\ t0' = t0
              /\ produced' = produced
              /\ cbPc' = "idle"
              /\ cbPc = "idle"
              /\ IF continuous THEN stop_event ELSE total_samples - t0 <= 0
              /\ \A i \in 1..Len(outdata') : \A c \in 1..Len(outdata'[i]) :
                     outdata'[i][c] = Stale)]_vars

\* C17 witness: a finite session was stopped by its callback after it had
\* produced all its frames, and the buffer of that callback is unwritten.
C17_Witness ==
    /\ stream = "stopped"
    /\ ~continuous
    /\ total_samples > 0
    /\ t0 = total_samples
    /\ outdata # <<>>
    /\ outdata[1][1] = Stale

(***************************************************************************)
(* The generator alone: generate_sinusoidal_block is called for successive *)
(* blocks of a frequency list, a sampling rate and a mode drawn at the     *)
(* start; outdata collects the frames of all the blocks, t0 is the start   *)
(* of the next block and cb_frames the length of the last one.             *)
(***************************************************************************)
GenFrequencies ==
    { <<30>>, <<39, 40>>, <<99, 100>>, <<440>>, <<20, 60, 250>> }

GenRates == {8, 44100}

GenInit ==
    /\ mainPc = "generator"
    /\ frequencies \in GenFrequencies
    /\ binaural \in BOOLEAN
    /\ sampling_rate \in GenRates
    /\ frequency_input = <<>>
    /\ reported = "none"
    /\ continuous = FALSE
    /\ duration = 0
    /\ total_samples = 0
    /\ t0 = 0
    /\ stop_event = FALSE
    /\ signals = 0
    /\ stream = "unopened"
    /\ channels = 0
    /\ cancelledAtOpen = FALSE
    /\ cbPc = "idle"
    /\ cb_frames = 0
    /\ cb_remaining = 0
    /\ outdata = <<>>
    /\ cbLate = FALSE
    /\ produced = 0

\* One call generate_sinusoidal_block(frequencies, sampling_rate,
\* block_size, t0, binaural).
GenBlock(block_size) ==
    /\ mainPc = "generator"
    /\ t0 + block_size <= MaxGenClock
    /\ LET block == generate_sinusoidal_block(frequencies, sampling_rate,
                                              block_size, t0, binaural)
       IN  outdata' = outdata \o reshape(block, binaural)
    /\ cb_frames' = block_size
    /\ t0' = t0 + block_size
    /\ UNCHANGED mainVars
    /\ UNCHANGED <<total_samples, stream, channels, cancelledAtOpen, stop_event,
                   signals, cb_remaining, cbPc, cbLate, produced>>

GenNext == \E block_size \in 0..MaxBlock : GenBlock(block_size)

GenSpec == GenInit /\ [][GenNext]_vars

\* C13: in binaural mode the left tone of every frequency f has frequency f
\* and the right tone f + d(f), with d(f) = 4 below 40 Hz, 6 from 40 Hz to
\* below 100 Hz and 8 from 100 Hz on.
C13_BeatOffsets ==
    (mainPc = "generator" /\ binaural)
        => \A i \in 1..Len(outdata) :
               /\ Len(outdata[i][1].freqs) = Len(frequencies)
               /\ Len(outdata[i][2].freqs) = Len(frequencies)
               /\ \A k \in 1..Len(frequencies) :
                      LET f == frequencies[k]
                          d == IF f < 40 THEN 4 ELSE IF f < 100 THEN 6 ELSE 8
                      IN  /\ outdata[i][1].freqs[k] = f
                          /\ outdata[i][2].freqs[k] = f + d

\* C13 witness: a binaural block for 39 Hz and 40 Hz, either side of the
\* first boundary: right tones at 43 Hz and 46 Hz.
C13_Witness ==
    /\ mainPc = "generator"
    /\ binaural
    /\ frequencies = <<39, 40>>
    /\ outdata # <<>>
    /\ outdata[1][2].freqs = <<43, 46>>

\* C14: the frames of successive blocks [0, s1), [s1, s2), ... put end to
\* end are those of the single block [0, N), index by index.
C14_PhaseContinuity ==
    mainPc = "generator"
        => (/\ Len(outdata) = t0
            /\ outdata = reshape(generate_sinusoidal_block(frequencies, sampling_rate,
                                                           t0, 0, binaural),
                                 binaural))

\* C14 witness: at least two non-empty blocks were generated, the last one
\* starting at a non-zero index.
C14_Witness ==
    /\ mainPc = "generator"
    /\ cb_frames >= 1
    /\ cb_frames < t0
    /\ Len(outdata) = t0
    /\ outdata[t0][1].n = t0 - 1

\* C15: in mono mode a block of block_len samples starting at start_sample
\* has exactly block_len samples, the one at index i being the sum of
\* sin(2*pi*f*(start_sample+i)/rate) over all the frequencies f divided by
\* their number.
C15_MonoAverage ==
    [][(mainPc = "generator" /\ ~binaural)
          => (/\ Len(outdata') = Len(outdata) + cb_frames'
              /\ \A i \in 1..cb_frames' :
                     outdata'[Len(outdata) + i] =
                         <<[kind |-> "tone", freqs |-> frequencies,
                            n |-> t0 + i - 1, rate |-> sampling_rate,
                            div |-> Len(frequencies)]>>)]_vars

\* C15 witness: mono blocks of several frequencies were generated, the last
\* of them of length 0.
C15_Witness ==
    /\ mainPc = "generator"
    /\ ~binaural
    /\ Len(frequencies) >= 2
    /\ outdata # <<>>
    /\ t0 > 0
    /\ cb_frames = 0

(***************************************************************************)
(* parse_input alone: main reads a line drawn from all the lines of at     *)
(* most MaxInputLen characters over ParseAlphabet and parses it.           *)
(***************************************************************************)
ParseAlphabet == {"5", ",", " ", "b", "c", "B"}

ParseInputs == UNION { [1..n -> ParseAlphabet] : n \in 0..MaxInputLen }

ParseInit ==
    /\ mainPc = "input"
    /\ frequency_input \in ParseInputs
    /\ sampling_rate = 0
    /\ reported = "none"
    /\ frequencies = <<>>
    /\ binaural = FALSE
    /\ continuous = FALSE
    /\ duration = 0
    /\ total_samples = 0
    /\ t0 = 0
    /\ stop_event = FALSE
    /\ signals = 0
    /\ stream = "unopened"
    /\ channels = 0
    /\ cancelledAtOpen = FALSE
    /\ cbPc = "idle"
    /\ cb_frames = 0
    /\ cb_remaining = 0
    /\ outdata = <<>>
    /\ cbLate = FALSE
    /\ produced = 0

ParseNext == MainParse(frequency_input)

ParseSpec == ParseInit /\ [][ParseNext]_vars

\* The whitespace-separated parts of the line read, lower-cased.
InputParts ==
    LET parts == split(strip(frequency_input))
    IN  [i \in 1..Len(parts) |-> lower(parts[i])]

=============================================================================
